---- MODULE Spec2Model ----
(***************************************************************************)
(* The runnable example go/main.go and the snippets of                     *)
(* go/basic_syntax.md and go/concurrency.md, each modelled as its own      *)
(* program.  The variable prog says which program a behaviour runs; the    *)
(* programs share nothing else.                                            *)
(***************************************************************************)
EXTENDS Integers, Sequences, FiniteSets, Bags, TLC

VARIABLES
    prog,      \* the program this behaviour runs
    proc,      \* the process: "running", "exited" (main returned), "panic"
    pc,        \* position of each named goroutine
    idx,       \* loop counter i of each named goroutine
    out,       \* the lines printed so far, each a sequence of string tokens
    backing,   \* slices: the backing array of s
    sv,        \* slices: the slice headers of the variables s and l
    cells,     \* closures: the captured variable i of every closure made
    rets,      \* closures: what every closure has returned so far
    heap,      \* list: the allocated elements, address -> [next, val]
    lst,       \* list: the List value [head, tail]
    pushed,    \* list: the values pushed so far (history)
    elems,     \* list: the result of the last GetAll
    xs,        \* errors: the arguments main ranges over
    res,       \* errors: the (result, error) pair of the last call
    loc,       \* the loop variable each named goroutine holds (0 outside the body)
    wpc,       \* position of each worker goroutine
    wjob,      \* the job or request each worker holds (0 outside the body)
    chans,     \* the channels: [buf, cap, closed]
    sent,      \* per channel, every value sent, in order (history)
    rcvd,      \* per channel, every value received, in order (history)
    now,       \* the time, in seconds
    timer,     \* when each named goroutine's timer fires (-1: none)
    ctxErr,    \* context: ctx.Err(), "nil" until cancel() is called
    reqs,      \* server: per request, its handler, goroutine, timer and context
    srv        \* server: signal received, listener open, Shutdown's deadline

varsCommon   == <<prog, proc, pc, idx, out>>
varsSlice    == <<backing, sv>>
varsClosure  == <<cells, rets>>
varsList     == <<heap, lst, pushed, elems>>
varsErrors   == <<xs, res>>
varsSeq      == <<varsSlice, varsClosure, varsList, varsErrors>>
varsWorkers  == <<wpc, wjob>>
varsChan     == <<chans, sent, rcvd>>
varsTime     == <<now, timer, ctxErr>>
varsSrv      == <<reqs, srv>>
varsConc     == <<loc, varsWorkers, varsChan, varsTime, varsSrv>>
vars == <<varsCommon, varsSeq, varsConc>>

Running == proc = "running"

Named == {"main", "prod", "cons", "canc", "srv"}

\* ------------------------------------------------------------------------
\* fmt: a printed line is a sequence of string tokens

RECURSIVE Digits(_)
Digits(n) ==
    IF n < 10 THEN <<CASE n = 0 -> "0" [] n = 1 -> "1" [] n = 2 -> "2"
                       [] n = 3 -> "3" [] n = 4 -> "4" [] n = 5 -> "5"
                       [] n = 6 -> "6" [] n = 7 -> "7" [] n = 8 -> "8"
                       [] OTHER -> "9">>
    ELSE Digits(n \div 10) \o Digits(n % 10)

\* %d / the default format of an int
Itoa(n) == IF n < 0 THEN <<"-">> \o Digits(-n) ELSE Digits(n)

RECURSIVE Join(_)
Join(ss) ==
    IF Len(ss) = 0 THEN <<>>
    ELSE IF Len(ss) = 1 THEN <<ss[1]>>
    ELSE <<ss[1], " ">> \o Join(Tail(ss))

\* fmt.Println of a []string: the elements, space separated, in brackets
FormatSlice(ss) == <<"[">> \o Join(ss) \o <<"]">>

\* ------------------------------------------------------------------------
\* go/main.go

NoSlice == [off |-> 0, len |-> 0, cap |-> 0]

\* s[lo:hi] of a slice x: in range when 0 <= lo <= hi <= cap(x)
SliceInRange(x, lo, hi) == 0 <= lo /\ lo <= hi /\ hi <= x.cap

\* s[lo:hi] taken to include s[hi]
SliceExprOffByOne(x, lo, hi) ==
    [off |-> x.off + lo, len |-> hi - lo + 1, cap |-> x.cap - lo]

\* s[lo:hi]: from s[lo] up to, and excluding, s[hi]
SliceExpr(x, lo, hi) ==
    [off |-> x.off + lo, len |-> hi - lo, cap |-> x.cap - lo]

\* the elements a slice header denotes
Elems(x) == [k \in 1..x.len |-> backing[x.off + k]]

SliceInit ==
    /\ prog = "slice"
    /\ pc = [g \in Named |-> IF g = "main" THEN "L7" ELSE "-"]

SliceStep(from, to) ==
    /\ prog = "slice" /\ Running
    /\ pc["main"] = from
    /\ pc' = [pc EXCEPT !["main"] = to]
    /\ UNCHANGED <<prog, idx, varsClosure, varsList, varsErrors>>
    /\ UNCHANGED varsConc

\* s := []string{"a", "b", "c", "d", "e", "f"}
SliceLit ==
    /\ SliceStep("L7", "L9")
    /\ backing' = <<"a", "b", "c", "d", "e", "f">>
    /\ sv' = [sv EXCEPT !.s = [off |-> 0, len |-> 6, cap |-> 6]]
    /\ UNCHANGED <<proc, out>>

\* l = s[lo:hi]; an index out of range panics
SliceAssign(from, to, lo, hi) ==
    /\ SliceStep(from, to)
    /\ IF SliceInRange(sv.s, lo, hi)
       THEN sv' = [sv EXCEPT !.l = SliceExpr(sv.s, lo, hi)] /\ proc' = proc
       ELSE sv' = sv /\ proc' = "panic"
    /\ UNCHANGED <<backing, out>>

\* fmt.Println(l)
SlicePrintln(from, to) ==
    /\ SliceStep(from, to)
    /\ out' = Append(out, FormatSlice(Elems(sv.l)))
    /\ UNCHANGED <<proc, backing, sv>>

SliceL9  == SliceAssign("L9", "L10", 2, 5)
SliceL10 == SlicePrintln("L10", "L13")
SliceL13 == SliceAssign("L13", "L14", 0, 5)
SliceL14 == SlicePrintln("L14", "L17")
SliceL17 == SliceAssign("L17", "L18", 2, sv.s.len)
SliceL18 == SlicePrintln("L18", "L19")

SliceReturn ==
    /\ SliceStep("L19", "returned")
    /\ proc' = "exited"
    /\ UNCHANGED <<out, backing, sv>>

SliceNext ==
    \/ SliceLit \/ SliceL9 \/ SliceL10 \/ SliceL13 \/ SliceL14
    \/ SliceL17 \/ SliceL18 \/ SliceReturn

\* ------------------------------------------------------------------------
\* go/basic_syntax.md, Closures

MaxClosures == 3
MaxCalls == 3

\* intSeq(): a new variable i := 0, and the function that captures it
IntSeq ==
    /\ prog = "closure" /\ Running
    /\ Len(cells) < MaxClosures
    /\ cells' = Append(cells, 0)
    /\ rets' = Append(rets, <<>>)
    /\ UNCHANGED <<varsCommon, varsSlice, varsList, varsErrors>>
    /\ UNCHANGED varsConc

\* the variable the closure c increments: a single i shared by all closures
CapturedShared(c) == 1

\* the variable the closure c increments: its own
Captured(c) == c

\* a call of the closure c: i++; return i
CallClosure(c) ==
    /\ prog = "closure" /\ Running
    /\ Len(rets[c]) < MaxCalls
    /\ LET v == Captured(c)
           i == cells[v] + 1
       IN /\ cells' = [cells EXCEPT ![v] = i]
          /\ rets' = [rets EXCEPT ![c] = Append(@, i)]
    /\ UNCHANGED <<varsCommon, varsSlice, varsList, varsErrors>>
    /\ UNCHANGED varsConc

ClosureInit == prog = "closure" /\ pc = [g \in Named |-> IF g = "main" THEN "-" ELSE "-"]

ClosureNext == IntSeq \/ \E c \in 1..Len(cells) : CallClosure(c)

\* ------------------------------------------------------------------------
\* go/basic_syntax.md, Generics: List[T]

MaxPush == 3
Vals == {10, 13}
Nil == 0

\* &element[T]{val: v}
NewElement(v) == [next |-> Nil, val |-> v]

\* Push with the tail left where it was in the else branch
PushStale(l, h, v) ==
    LET a == Len(h) + 1 IN
    IF l.tail = Nil
    THEN [lst |-> [head |-> a, tail |-> a], heap |-> Append(h, NewElement(v))]
    ELSE [lst |-> l,
          heap |-> Append([h EXCEPT ![l.tail].next = a], NewElement(v))]

\* func (lst *List[T]) Push(v T): the list and the heap after it
Push(l, h, v) ==
    LET a == Len(h) + 1 IN
    IF l.tail = Nil
    THEN [lst |-> [head |-> a, tail |-> a], heap |-> Append(h, NewElement(v))]
    ELSE LET h2 == Append([h EXCEPT ![l.tail].next = a], NewElement(v))
         IN [lst |-> [l EXCEPT !.tail = h2[l.tail].next], heap |-> h2]

\* for e := lst.head; e != nil; e = e.next { elems = append(elems, e.val) }
RECURSIVE GetAllFrom(_, _, _)
GetAllFrom(h, e, acc) ==
    IF e = Nil THEN acc ELSE GetAllFrom(h, h[e].next, Append(acc, h[e].val))

\* func (lst *List[T]) GetAll() []T
GetAll(l, h) == GetAllFrom(h, l.head, <<>>)

ListPush(v) ==
    /\ prog = "list" /\ Running
    /\ Len(pushed) < MaxPush
    /\ LET p == Push(lst, heap, v)
       IN lst' = p.lst /\ heap' = p.heap
    /\ pushed' = Append(pushed, v)
    /\ pc' = [pc EXCEPT !["main"] = "pushed"]
    /\ UNCHANGED <<prog, proc, idx, out, elems, varsSlice, varsClosure, varsErrors>>
    /\ UNCHANGED varsConc

ListGetAll ==
    /\ prog = "list" /\ Running
    /\ elems' = GetAll(lst, heap)
    /\ pc' = [pc EXCEPT !["main"] = "got"]
    /\ UNCHANGED <<prog, proc, idx, out, heap, lst, pushed,
                   varsSlice, varsClosure, varsErrors>>
    /\ UNCHANGED varsConc

ListInit == prog = "list" /\ pc = [g \in Named |-> IF g = "main" THEN "new" ELSE "-"]

ListNext == ListGetAll \/ \E v \in Vals : ListPush(v)

\* ------------------------------------------------------------------------
\* go/basic_syntax.md, Errors

IntBits == 7
MinInt == -(2 ^ (IntBits - 1))
MaxInt == 2 ^ (IntBits - 1) - 1
GoInt == MinInt..MaxInt

\* the value of an int expression: two's complement, IntBits wide
WrapInt(n) == ((n - MinInt) % (2 ^ IntBits)) + MinInt

NilError == [kind |-> "nil"]
\* errors.New(text)
ErrorsNew(text) == [kind |-> "errorString", s |-> text]
\* &argError{arg, prob}
ArgError(arg, prob) == [kind |-> "argError", arg |-> arg, prob |-> prob]

\* e.Error()
ErrorText(e) ==
    IF e.kind = "argError" THEN Itoa(e.arg) \o <<" - ", e.prob>> ELSE <<e.s>>

\* f1 without its test for 42
f1NoCheck(arg) == [r |-> WrapInt(arg + 3), e |-> NilError]

\* func f1(arg int) (int, error)
f1(arg) ==
    IF arg = 42
    THEN [r |-> -1, e |-> ErrorsNew("can't work with 42")]
    ELSE [r |-> WrapInt(arg + 3), e |-> NilError]

\* func f2(arg int) (int, error)
f2(arg) ==
    IF arg = 42
    THEN [r |-> -1, e |-> ArgError(arg, "can't work with it")]
    ELSE [r |-> WrapInt(arg + 3), e |-> NilError]

ErrorsInit ==
    /\ prog \in {"f1", "f2"}
    /\ pc = [g \in Named |-> IF g = "main" THEN "range" ELSE "-"]
    \* main ranges over []int{7, 42}; any one argument besides
    /\ xs \in {<<7, 42>>} \cup {<<a>> : a \in GoInt}

ErrorsStep(from, to) ==
    /\ prog \in {"f1", "f2"} /\ Running
    /\ pc["main"] = from
    /\ pc' = [pc EXCEPT !["main"] = to]
    /\ UNCHANGED <<prog, xs, varsSlice, varsClosure, varsList>>
    /\ UNCHANGED varsConc

\* for _, i := range xs
ErrorsRange ==
    /\ idx["main"] < Len(xs)
    /\ ErrorsStep("range", "call")
    /\ idx' = [idx EXCEPT !["main"] = @ + 1]
    /\ UNCHANGED <<proc, out, res>>

\* r, e := f1(i)  /  _, e := f2(i)
ErrorsCall ==
    /\ ErrorsStep("call", "if")
    /\ res' = IF prog = "f1" THEN f1(xs[idx["main"]]) ELSE f2(xs[idx["main"]])
    /\ UNCHANGED <<proc, idx, out>>

\* if e != nil { Println("f1 failed:", e) } else { Println("f1 worked:", r) }
F1Report ==
    /\ prog = "f1"
    /\ ErrorsStep("if", "range")
    /\ out' = Append(out,
                IF res.e.kind # "nil"
                THEN <<"f1 failed:", " ">> \o ErrorText(res.e)
                ELSE <<"f1 worked:", " ">> \o Itoa(res.r))
    /\ UNCHANGED <<proc, idx, res>>

\* if err, ok := e.(*argError); ok { Println(err.arg); Println(err.prob) }
F2Report ==
    /\ prog = "f2"
    /\ ErrorsStep("if", "range")
    /\ out' = IF res.e.kind = "argError"
              THEN out \o <<Itoa(res.e.arg), <<res.e.prob>>>>
              ELSE out
    /\ UNCHANGED <<proc, idx, res>>

ErrorsReturn ==
    /\ idx["main"] = Len(xs)
    /\ ErrorsStep("range", "returned")
    /\ proc' = "exited"
    /\ UNCHANGED <<idx, out, res>>

ErrorsNext == ErrorsRange \/ ErrorsCall \/ F1Report \/ F2Report \/ ErrorsReturn

\* ------------------------------------------------------------------------
\* go/concurrency.md: goroutines and channels

ChanNames == {"ch", "jobs", "results", "messages", "requests"}

\* make(chan T, n)
MakeChan(n) == [buf |-> <<>>, cap |-> n, closed |-> FALSE]

At(g, label) == Running /\ pc[g] = label
Goto(g, label) == pc' = [pc EXCEPT ![g] = label]

\* c <- v can proceed: there is room, or c is closed (and the send panics)
SendReady(c) == chans[c].closed \/ Len(chans[c].buf) < chans[c].cap

\* c <- v
ChanSend(c, v) ==
    /\ SendReady(c)
    /\ IF chans[c].closed
       THEN proc' = "panic" /\ UNCHANGED <<chans, sent>>
       ELSE /\ chans' = [chans EXCEPT ![c].buf = Append(@, v)]
            /\ sent' = [sent EXCEPT ![c] = Append(@, v)]
            /\ proc' = proc

\* close(c); closing a closed channel panics
ChanClose(c) ==
    IF chans[c].closed
    THEN proc' = "panic" /\ UNCHANGED chans
    ELSE chans' = [chans EXCEPT ![c].closed = TRUE] /\ proc' = proc

\* a value is there to receive
RecvReady(c) == Len(chans[c].buf) > 0

\* v := <-c, the value being Head(chans[c].buf)
ChanRecv(c) ==
    /\ RecvReady(c)
    /\ chans' = [chans EXCEPT ![c].buf = Tail(@)]
    /\ rcvd' = [rcvd EXCEPT ![c] = Append(@, Head(chans[c].buf))]

\* for v := range c ends as soon as c is empty, closed or not
RangeOverEmpty(c) == Len(chans[c].buf) = 0

\* for v := range c ends: c is closed and drained
RangeOver(c) == chans[c].closed /\ Len(chans[c].buf) = 0

numWorkers == 3
Workers == 1..numWorkers

ConcInit(p, chs) ==
    /\ prog = p
    /\ chans = [c \in ChanNames |-> IF c \in DOMAIN chs THEN MakeChan(chs[c])
                                     ELSE MakeChan(0)]

\* ------------------------------------------------------------------------
\* Buffered Channel

BufCap == 3

BufInit ==
    /\ ConcInit("buffered", [ch |-> BufCap])
    /\ pc = [g \in Named |-> IF g = "main" THEN "go" ELSE "-"]

BufFrame == UNCHANGED <<varsTime, varsSrv, prog, idx, out, varsWorkers, varsSeq>>

\* go func() { ... }()
BufGo ==
    /\ prog = "buffered" /\ At("main", "go")
    /\ pc' = [pc EXCEPT !["main"] = "range", !["prod"] = "send1"]
    /\ BufFrame /\ UNCHANGED <<proc, loc, varsChan>>

\* ch <- 1
BufSend1 ==
    /\ prog = "buffered" /\ At("prod", "send1")
    /\ ChanSend("ch", 1)
    /\ Goto("prod", "send2")
    /\ BufFrame /\ UNCHANGED <<loc, rcvd>>

\* ch <- 2
BufSend2 ==
    /\ prog = "buffered" /\ At("prod", "send2")
    /\ ChanSend("ch", 2)
    /\ Goto("prod", "close")
    /\ BufFrame /\ UNCHANGED <<loc, rcvd>>

\* close(ch)
BufClose ==
    /\ prog = "buffered" /\ At("prod", "close")
    /\ ChanClose("ch")
    /\ Goto("prod", "end")
    /\ BufFrame /\ UNCHANGED <<loc, sent, rcvd>>

\* for num := range ch: the next num
BufRange ==
    /\ prog = "buffered" /\ At("main", "range")
    /\ ChanRecv("ch")
    /\ loc' = [loc EXCEPT !["main"] = Head(chans["ch"].buf)]
    /\ BufFrame /\ UNCHANGED <<proc, pc, sent>>

\* the range loop ends and the snippet with it
BufRangeEnd ==
    /\ prog = "buffered" /\ At("main", "range")
    /\ RangeOver("ch")
    /\ Goto("main", "returned")
    /\ proc' = "exited"
    /\ BufFrame /\ UNCHANGED <<loc, varsChan>>

BufNext ==
    BufGo \/ BufSend1 \/ BufSend2 \/ BufClose \/ BufRange \/ BufRangeEnd

\* ------------------------------------------------------------------------
\* Worker Pools

NumJobs == 5
PoolCap == 10

PoolInit ==
    /\ ConcInit("pool", [jobs |-> PoolCap, results |-> PoolCap])
    /\ pc = [g \in Named |-> IF g = "main" THEN "spawn" ELSE "-"]

PoolFrame == UNCHANGED <<varsTime, varsSrv, prog, varsSeq>>

\* a worker that triples the job
PoolResultTriple(job) == job * 3

\* the value a worker sends for a job: job * 2
PoolResult(job) == job * 2

\* for i := 1; i <= numWorkers; i++ { go worker(i) }
PoolGo ==
    /\ prog = "pool" /\ At("main", "spawn")
    /\ LET i == idx["main"] + 1 IN
       /\ wpc' = [wpc EXCEPT ![i] = "range"]
       /\ idx' = [idx EXCEPT !["main"] = IF i = numWorkers THEN 0 ELSE i]
       /\ Goto("main", IF i = numWorkers THEN "send" ELSE "spawn")
    /\ PoolFrame /\ UNCHANGED <<proc, out, loc, wjob, varsChan>>

\* for i := 1; i <= 5; i++ { jobs <- i }
PoolSendJob ==
    /\ prog = "pool" /\ At("main", "send")
    /\ LET i == idx["main"] + 1 IN
       /\ ChanSend("jobs", i)
       /\ idx' = [idx EXCEPT !["main"] = IF i = NumJobs THEN 0 ELSE i]
       /\ Goto("main", IF i = NumJobs THEN "close" ELSE "send")
    /\ PoolFrame /\ UNCHANGED <<out, loc, varsWorkers, rcvd>>

\* close(jobs)
PoolClose ==
    /\ prog = "pool" /\ At("main", "close")
    /\ ChanClose("jobs")
    /\ Goto("main", "recv")
    /\ PoolFrame /\ UNCHANGED <<idx, out, loc, varsWorkers, sent, rcvd>>

\* result := <-results
PoolRecvResult ==
    /\ prog = "pool" /\ At("main", "recv")
    /\ ChanRecv("results")
    /\ loc' = [loc EXCEPT !["main"] = Head(chans["results"].buf)]
    /\ Goto("main", "print")
    /\ PoolFrame /\ UNCHANGED <<proc, idx, out, varsWorkers, sent>>

\* fmt.Println("Result:", result), and the loop's i++
PoolPrint ==
    /\ prog = "pool" /\ At("main", "print")
    /\ out' = Append(out, <<"Result:", " ">> \o Itoa(loc["main"]))
    /\ loc' = [loc EXCEPT !["main"] = 0]
    /\ LET i == idx["main"] + 1 IN
       /\ idx' = [idx EXCEPT !["main"] = i]
       /\ Goto("main", IF i = NumJobs THEN "returned" ELSE "recv")
       /\ proc' = IF i = NumJobs THEN "exited" ELSE proc
    /\ PoolFrame /\ UNCHANGED <<varsWorkers, varsChan>>

\* for job := range jobs: the next job
PoolWorkerRange(w) ==
    /\ prog = "pool" /\ Running /\ wpc[w] = "range"
    /\ ChanRecv("jobs")
    /\ wjob' = [wjob EXCEPT ![w] = Head(chans["jobs"].buf)]
    /\ wpc' = [wpc EXCEPT ![w] = "send"]
    /\ PoolFrame /\ UNCHANGED <<proc, pc, idx, out, loc, sent>>

\* results <- job * 2
PoolWorkerSend(w) ==
    /\ prog = "pool" /\ Running /\ wpc[w] = "send"
    /\ ChanSend("results", PoolResult(wjob[w]))
    /\ wjob' = [wjob EXCEPT ![w] = 0]
    /\ wpc' = [wpc EXCEPT ![w] = "range"]
    /\ PoolFrame /\ UNCHANGED <<pc, idx, out, loc, rcvd>>

\* the worker's range loop ends and worker returns
PoolWorkerEnd(w) ==
    /\ prog = "pool" /\ Running /\ wpc[w] = "range"
    /\ RangeOver("jobs")
    /\ wpc' = [wpc EXCEPT ![w] = "end"]
    /\ PoolFrame /\ UNCHANGED <<proc, pc, idx, out, loc, wjob, varsChan>>

PoolNext ==
    \/ PoolGo \/ PoolSendJob \/ PoolClose \/ PoolRecvResult \/ PoolPrint
    \/ \E w \in Workers :
          PoolWorkerRange(w) \/ PoolWorkerSend(w) \/ PoolWorkerEnd(w)

\* ------------------------------------------------------------------------
\* Realtime Examples: chat

NumMessages == 10
MessagesCap == 100

\* fmt.Sprintf("User%d", i)
ChatUser(i) == <<"User">> \o Itoa(i)

\* Message{User: user, Content: fmt.Sprintf("Hello from %s!", user)}
ChatMessage(i) ==
    [User |-> ChatUser(i), Content |-> <<"Hello from ">> \o ChatUser(i) \o <<"!">>]

\* the zero Message
NoMessage == [User |-> <<>>, Content |-> <<>>]

\* fmt.Printf("Received message from %s: %s\n", msg.User, msg.Content)
ChatLine(msg) ==
    <<"Received message from ">> \o msg.User \o <<": ">> \o msg.Content

ChatInit ==
    /\ ConcInit("chat", [messages |-> MessagesCap])
    /\ pc = [g \in Named |-> IF g = "main" THEN "go1" ELSE "-"]

ChatFrame == UNCHANGED <<varsTime, varsSrv, prog, varsWorkers, varsSeq>>

\* go processMessages(messages)
ChatGoProcess ==
    /\ prog = "chat" /\ At("main", "go1")
    /\ pc' = [pc EXCEPT !["main"] = "go2", !["cons"] = "range"]
    /\ ChatFrame /\ UNCHANGED <<proc, idx, out, loc, varsChan>>

\* go func() { for i := 1; ... }()
ChatGoProducer ==
    /\ prog = "chat" /\ At("main", "go2")
    /\ pc' = [pc EXCEPT !["main"] = "select", !["prod"] = "send"]
    /\ idx' = [idx EXCEPT !["prod"] = 1]
    /\ ChatFrame /\ UNCHANGED <<proc, out, loc, varsChan>>

\* messages <- Message{...}
ChatSend ==
    /\ prog = "chat" /\ At("prod", "send")
    /\ ChanSend("messages", ChatMessage(idx["prod"]))
    /\ Goto("prod", "sleep")
    /\ ChatFrame /\ UNCHANGED <<idx, out, loc, rcvd>>

\* the loop left one round early (i < 10 for i <= 10)
ChatAfterBodyEarly(i) == IF i >= NumMessages THEN "close" ELSE "send"

\* the position after the loop body, i being the counter after i++
ChatAfterBody(i) == IF i > NumMessages THEN "close" ELSE "send"

\* time.Sleep(time.Second); i++; i <= 10
ChatSleep ==
    /\ prog = "chat" /\ At("prod", "sleep")
    /\ idx' = [idx EXCEPT !["prod"] = @ + 1]
    /\ Goto("prod", ChatAfterBody(idx["prod"] + 1))
    /\ ChatFrame /\ UNCHANGED <<proc, out, loc, varsChan>>

\* close(messages)
ChatClose ==
    /\ prog = "chat" /\ At("prod", "close")
    /\ ChanClose("messages")
    /\ Goto("prod", "end")
    /\ ChatFrame /\ UNCHANGED <<idx, out, loc, sent, rcvd>>

\* for msg := range messages: the next msg
ChatRange ==
    /\ prog = "chat" /\ At("cons", "range")
    /\ ChanRecv("messages")
    /\ loc' = [loc EXCEPT !["cons"] = Head(chans["messages"].buf)]
    /\ Goto("cons", "print")
    /\ ChatFrame /\ UNCHANGED <<proc, idx, out, sent>>

\* fmt.Printf(...)
ChatPrint ==
    /\ prog = "chat" /\ At("cons", "print")
    /\ out' = Append(out, ChatLine(loc["cons"]))
    /\ loc' = [loc EXCEPT !["cons"] = NoMessage]
    /\ Goto("cons", "range")
    /\ ChatFrame /\ UNCHANGED <<proc, idx, varsChan>>

\* the range loop ends and processMessages returns
ChatRangeEnd ==
    /\ prog = "chat" /\ At("cons", "range")
    /\ RangeOver("messages")
    /\ Goto("cons", "end")
    /\ ChatFrame /\ UNCHANGED <<proc, idx, out, loc, varsChan>>

\* main stays in select {}: no case can ever proceed
ChatNext ==
    \/ ChatGoProcess \/ ChatGoProducer \/ ChatSend \/ ChatSleep \/ ChatClose
    \/ ChatRange \/ ChatPrint \/ ChatRangeEnd

\* ------------------------------------------------------------------------
\* Realtime Examples: HTTP worker pool

\* the snippet sends 10 requests; the model sends NumRequests
NumRequests == 3
HttpCap == 10

\* Request{ID: i, URL: fmt.Sprintf("http://example.com/%d", i)}
HttpRequest(i) == [ID |-> i, URL |-> <<"http://example.com/">> \o Itoa(i)]

\* the zero Request
NoRequest == [ID |-> 0, URL |-> <<>>]

\* fmt.Sprintf("Worker %d processed request %d to URL: %s", id, req.ID, req.URL)
HttpResponse(id, req) ==
    <<"Worker ">> \o Itoa(id) \o <<" processed request ">> \o Itoa(req.ID)
        \o <<" to URL: ">> \o req.URL

HttpInit ==
    /\ ConcInit("http", [requests |-> HttpCap, results |-> HttpCap])
    /\ pc = [g \in Named |-> IF g = "main" THEN "spawn" ELSE "-"]

HttpFrame == UNCHANGED <<varsTime, varsSrv, prog, varsSeq>>

\* for i := 1; i <= numWorkers; i++ { go worker(i, requests, results) }
HttpGoWorker ==
    /\ prog = "http" /\ At("main", "spawn")
    /\ LET i == idx["main"] + 1 IN
       /\ wpc' = [wpc EXCEPT ![i] = "range"]
       /\ idx' = [idx EXCEPT !["main"] = IF i = numWorkers THEN 0 ELSE i]
       /\ Goto("main", IF i = numWorkers THEN "go2" ELSE "spawn")
    /\ HttpFrame /\ UNCHANGED <<proc, out, loc, wjob, varsChan>>

\* go func() { for i := 1; ... }()
HttpGoProducer ==
    /\ prog = "http" /\ At("main", "go2")
    /\ pc' = [pc EXCEPT !["main"] = "go3", !["prod"] = "send"]
    /\ idx' = [idx EXCEPT !["prod"] = 1]
    /\ HttpFrame /\ UNCHANGED <<proc, out, loc, varsWorkers, varsChan>>

\* go func() { for response := range results ... }()
HttpGoCollector ==
    /\ prog = "http" /\ At("main", "go3")
    /\ pc' = [pc EXCEPT !["main"] = "select", !["cons"] = "range"]
    /\ HttpFrame /\ UNCHANGED <<proc, idx, out, loc, varsWorkers, varsChan>>

\* requests <- Request{...}
HttpSend ==
    /\ prog = "http" /\ At("prod", "send")
    /\ ChanSend("requests", HttpRequest(idx["prod"]))
    /\ Goto("prod", "sleep")
    /\ HttpFrame /\ UNCHANGED <<idx, out, loc, varsWorkers, rcvd>>

\* time.Sleep(time.Second); i++; i <= 10
HttpSleep ==
    /\ prog = "http" /\ At("prod", "sleep")
    /\ idx' = [idx EXCEPT !["prod"] = @ + 1]
    /\ Goto("prod", IF idx["prod"] + 1 > NumRequests THEN "close" ELSE "send")
    /\ HttpFrame /\ UNCHANGED <<proc, out, loc, varsWorkers, varsChan>>

\* close(requests)
HttpClose ==
    /\ prog = "http" /\ At("prod", "close")
    /\ ChanClose("requests")
    /\ Goto("prod", "end")
    /\ HttpFrame /\ UNCHANGED <<idx, out, loc, varsWorkers, sent, rcvd>>

\* for req := range requests: the next req
HttpWorkerRange(w) ==
    /\ prog = "http" /\ Running /\ wpc[w] = "range"
    /\ ChanRecv("requests")
    /\ wjob' = [wjob EXCEPT ![w] = Head(chans["requests"].buf)]
    /\ wpc' = [wpc EXCEPT ![w] = "send"]
    /\ HttpFrame /\ UNCHANGED <<proc, pc, idx, out, loc, sent>>

\* a worker that sends no response for request 1
HttpSkipsFirst(w, req) == req.ID = 1

\* whether worker w leaves req without a response: it never does
HttpSkips(w, req) == FALSE

\* response := fmt.Sprintf(...); results <- response
HttpWorkerSend(w) ==
    /\ prog = "http" /\ Running /\ wpc[w] = "send"
    /\ IF HttpSkips(w, wjob[w])
       THEN UNCHANGED <<proc, chans, sent>>
       ELSE ChanSend("results", HttpResponse(w, wjob[w]))
    /\ wjob' = [wjob EXCEPT ![w] = NoRequest]
    /\ wpc' = [wpc EXCEPT ![w] = "range"]
    /\ HttpFrame /\ UNCHANGED <<pc, idx, out, loc, rcvd>>

\* the worker's range loop ends and worker returns
HttpWorkerEnd(w) ==
    /\ prog = "http" /\ Running /\ wpc[w] = "range"
    /\ RangeOver("requests")
    /\ wpc' = [wpc EXCEPT ![w] = "end"]
    /\ HttpFrame /\ UNCHANGED <<proc, pc, idx, out, loc, wjob, varsChan>>

\* for response := range results: the next response, or the end of the loop
\* once results is closed and drained
HttpCollect ==
    /\ prog = "http" /\ At("cons", "range")
    /\ RecvReady("results") \/ RangeOver("results")
    /\ IF RangeOver("results")
       THEN Goto("cons", "end") /\ UNCHANGED <<loc, chans, rcvd>>
       ELSE /\ ChanRecv("results")
            /\ loc' = [loc EXCEPT !["cons"] = Head(chans["results"].buf)]
            /\ Goto("cons", "print")
    /\ HttpFrame /\ UNCHANGED <<proc, idx, out, varsWorkers, sent>>

\* fmt.Println(response)
HttpPrint ==
    /\ prog = "http" /\ At("cons", "print")
    /\ out' = Append(out, loc["cons"])
    /\ loc' = [loc EXCEPT !["cons"] = <<>>]
    /\ Goto("cons", "range")
    /\ HttpFrame /\ UNCHANGED <<proc, idx, varsWorkers, varsChan>>

\* main stays in select {}: no case can ever proceed
HttpNext ==
    \/ HttpGoWorker \/ HttpGoProducer \/ HttpGoCollector
    \/ HttpSend \/ HttpSleep \/ HttpClose \/ HttpCollect \/ HttpPrint
    \/ \E w \in Workers :
          HttpWorkerRange(w) \/ HttpWorkerSend(w) \/ HttpWorkerEnd(w)

\* ------------------------------------------------------------------------
\* time: timers fire at their deadline; a goroutine that can run does so
\* before a second passes

NoTimer == -1

\* the cases of `select { case <-timer: ...; case <-ctx.Done(): ... }` that can
\* proceed; select picks any one of them
SelectReady(deadline, done) ==
    (IF deadline # NoTimer /\ now >= deadline THEN {"timer"} ELSE {})
        \cup (IF done THEN {"done"} ELSE {})

\* ------------------------------------------------------------------------
\* Context

TaskSeconds == 2
CancelSeconds == 1

CtxInit ==
    /\ prog = "ctx"
    /\ pc = [g \in Named |-> IF g = "main" THEN "L133" ELSE "-"]

CtxFrame == UNCHANGED <<prog, idx, loc, varsWorkers, varsChan, varsSrv, varsSeq>>

\* ctx, cancel := context.WithCancel(context.Background())
CtxWithCancel ==
    /\ prog = "ctx" /\ At("main", "L133")
    /\ Goto("main", "L135")
    /\ CtxFrame /\ UNCHANGED <<proc, out, varsTime>>

\* go func() { ... }()
CtxGo ==
    /\ prog = "ctx" /\ At("main", "L135")
    /\ pc' = [pc EXCEPT !["main"] = "L140", !["canc"] = "L136"]
    /\ CtxFrame /\ UNCHANGED <<proc, out, varsTime>>

\* process(ctx): the select is entered and time.After(2 * time.Second) starts
CtxProcess ==
    /\ prog = "ctx" /\ At("main", "L140")
    /\ timer' = [timer EXCEPT !["main"] = now + TaskSeconds]
    /\ Goto("main", "select")
    /\ CtxFrame /\ UNCHANGED <<proc, out, now, ctxErr>>

\* the line a case of process prints
CtxLine(case) ==
    IF case = "timer" THEN <<"Task completed successfully">>
    ELSE <<"Task canceled:", " ", ctxErr>>

\* select { case <-time.After(...): ... case <-ctx.Done(): ... }
CtxSelect ==
    /\ prog = "ctx" /\ At("main", "select")
    /\ \E case \in SelectReady(timer["main"], ctxErr # "nil") :
          out' = Append(out, CtxLine(case))
    /\ timer' = [timer EXCEPT !["main"] = NoTimer]
    /\ Goto("main", "L141")
    /\ CtxFrame /\ UNCHANGED <<proc, now, ctxErr>>

\* process returns, and main with it
CtxReturn ==
    /\ prog = "ctx" /\ At("main", "L141")
    /\ Goto("main", "returned")
    /\ proc' = "exited"
    /\ CtxFrame /\ UNCHANGED <<out, varsTime>>

\* when a time.Sleep(1 * time.Second) called at t returns: a second too late
SleepReturnsLate(t) == t + CancelSeconds + 1

\* when a time.Sleep(1 * time.Second) called at t returns
SleepReturns(t) == t + CancelSeconds

\* time.Sleep(1 * time.Second) is called
CtxSleep ==
    /\ prog = "ctx" /\ At("canc", "L136")
    /\ timer' = [timer EXCEPT !["canc"] = SleepReturns(now)]
    /\ Goto("canc", "sleeping")
    /\ CtxFrame /\ UNCHANGED <<proc, out, now, ctxErr>>

\* time.Sleep returns
CtxWake ==
    /\ prog = "ctx" /\ At("canc", "sleeping")
    /\ now >= timer["canc"]
    /\ timer' = [timer EXCEPT !["canc"] = NoTimer]
    /\ Goto("canc", "L137")
    /\ CtxFrame /\ UNCHANGED <<proc, out, now, ctxErr>>

\* cancel()
CtxCancel ==
    /\ prog = "ctx" /\ At("canc", "L137")
    /\ ctxErr' = "context canceled"
    /\ Goto("canc", "end")
    /\ CtxFrame /\ UNCHANGED <<proc, out, now, timer>>

CtxSteps ==
    \/ CtxWithCancel \/ CtxGo \/ CtxProcess \/ CtxSelect \/ CtxReturn
    \/ CtxSleep \/ CtxWake \/ CtxCancel

\* a second passes: a timer is pending and no goroutine can run
CtxTick ==
    /\ prog = "ctx" /\ Running
    /\ \E g \in Named : timer[g] > now
    /\ ~ENABLED CtxSteps
    /\ now' = now + 1
    /\ CtxFrame /\ UNCHANGED <<proc, pc, out, timer, ctxErr>>

CtxNext == CtxSteps \/ CtxTick

\* ------------------------------------------------------------------------
\* Realtime Examples: graceful shutdown of a server

MaxReqs == 2
Reqs == 1..MaxReqs
RequestSeconds == 1
ShutdownSeconds == 10

SrvInit ==
    /\ prog = "shutdown"
    /\ pc = [g \in Named |-> IF g = "main" THEN "L273" ELSE "-"]

SrvFrame == UNCHANGED <<prog, idx, loc, varsWorkers, varsChan, timer, ctxErr, varsSeq>>

\* go func() { server.ListenAndServe() ... }()
SrvGoListen ==
    /\ prog = "shutdown" /\ At("main", "L273")
    /\ pc' = [pc EXCEPT !["main"] = "L280", !["srv"] = "L274"]
    /\ SrvFrame /\ UNCHANGED <<proc, out, now, varsSrv>>

\* sigCh := make(chan os.Signal, 1); signal.Notify(sigCh, SIGINT, SIGTERM)
SrvNotify ==
    /\ prog = "shutdown" /\ At("main", "L280")
    /\ Goto("main", "L282")
    /\ SrvFrame /\ UNCHANGED <<proc, out, now, varsSrv>>

\* SIGINT or SIGTERM is delivered to sigCh; inflight records the requests whose
\* goroutine has been started by then (history)
SrvSignal ==
    /\ prog = "shutdown" /\ At("main", "L282")
    /\ ~srv.sig
    /\ srv' = [srv EXCEPT !.sig = TRUE,
                          !.inflight = {r \in Reqs : reqs[r].g # "-"}]
    /\ SrvFrame /\ UNCHANGED <<proc, pc, out, now, reqs>>

\* <-sigCh
SrvRecvSignal ==
    /\ prog = "shutdown" /\ At("main", "L282")
    /\ srv.sig
    /\ Goto("main", "L285")
    /\ SrvFrame /\ UNCHANGED <<proc, out, now, varsSrv>>

\* ctx, cancel := context.WithTimeout(context.Background(), 10*time.Second)
SrvWithTimeout ==
    /\ prog = "shutdown" /\ At("main", "L285")
    /\ srv' = [srv EXCEPT !.deadline = now + ShutdownSeconds]
    /\ Goto("main", "L287")
    /\ SrvFrame /\ UNCHANGED <<proc, out, now, reqs>>

\* server.Shutdown(ctx) begins: the listener is closed
SrvShutdown ==
    /\ prog = "shutdown" /\ At("main", "L287")
    /\ srv' = [srv EXCEPT !.inShutdown = TRUE, !.listening = FALSE]
    /\ Goto("main", "drain")
    /\ SrvFrame /\ UNCHANGED <<proc, out, now, reqs>>

\* the connections Shutdown waits for: those whose handler has not returned
Active == {r \in Reqs : reqs[r].h \notin {"-", "idle"}}

\* server.Shutdown(ctx) returns: nil once no connection is active, ctx.Err()
\* once ctx's deadline has passed
SrvShutdownReturns ==
    /\ prog = "shutdown" /\ At("main", "drain")
    /\ Active = {} \/ now >= srv.deadline
    /\ out' = Append(out,
                IF Active = {} THEN <<"Server shut down gracefully">>
                ELSE <<"Error during server shutdown:", " ",
                       "context deadline exceeded">>)
    /\ Goto("main", "L292")
    /\ SrvFrame /\ UNCHANGED <<proc, now, varsSrv>>

\* main returns
SrvReturn ==
    /\ prog = "shutdown" /\ At("main", "L292")
    /\ Goto("main", "returned")
    /\ proc' = "exited"
    /\ SrvFrame /\ UNCHANGED <<out, now, varsSrv>>

\* server.ListenAndServe(): it listens, or returns ErrServerClosed after Shutdown
SrvListen ==
    /\ prog = "shutdown" /\ At("srv", "L274")
    /\ IF srv.inShutdown
       THEN Goto("srv", "L275") /\ srv' = srv
       ELSE Goto("srv", "serve") /\ srv' = [srv EXCEPT !.listening = TRUE]
    /\ SrvFrame /\ UNCHANGED <<proc, out, now, reqs>>

\* ListenAndServe returns ErrServerClosed once Shutdown has been called
SrvServeEnds ==
    /\ prog = "shutdown" /\ At("srv", "serve")
    /\ srv.inShutdown
    /\ Goto("srv", "L275")
    /\ SrvFrame /\ UNCHANGED <<proc, out, now, varsSrv>>

\* fmt.Println("Server error:", err)
SrvPrintError ==
    /\ prog = "shutdown" /\ At("srv", "L275")
    /\ out' = Append(out, <<"Server error:", " ", "http: Server closed">>)
    /\ Goto("srv", "end")
    /\ SrvFrame /\ UNCHANGED <<proc, now, varsSrv>>

\* a request arrives and the server calls the Handler
SrvAccept(r) ==
    /\ prog = "shutdown" /\ Running
    /\ srv.listening
    /\ reqs[r].h = "-"
    /\ \A q \in Reqs : q < r => reqs[q].h # "-"
    /\ reqs' = [reqs EXCEPT ![r].h = "L258"]
    /\ SrvFrame /\ UNCHANGED <<proc, pc, out, now, srv>>

\* ctx, cancel := context.WithCancel(...); go func() { ... }()
HandlerGo(r) ==
    /\ prog = "shutdown" /\ Running
    /\ reqs[r].h = "L258"
    /\ reqs' = [reqs EXCEPT ![r].h = "L267", ![r].g = "L263"]
    /\ SrvFrame /\ UNCHANGED <<proc, pc, out, now, srv>>

\* w.WriteHeader(...); w.Write(...); the Handler returns
HandlerRespond(r) ==
    /\ prog = "shutdown" /\ Running
    /\ reqs[r].h = "L267"
    /\ reqs' = [reqs EXCEPT ![r].h = "idle"]
    /\ SrvFrame /\ UNCHANGED <<proc, pc, out, now, srv>>

\* handleRequest(ctx, req): the select is entered and time.After(time.Second) starts
handleRequest(r) ==
    /\ prog = "shutdown" /\ Running
    /\ reqs[r].g = "L263"
    /\ reqs' = [reqs EXCEPT ![r].g = "select", ![r].timer = now + RequestSeconds]
    /\ SrvFrame /\ UNCHANGED <<proc, pc, out, now, srv>>

\* select { case <-time.After(...): ... case <-ctx.Done(): ... }
handleRequestSelect(r) ==
    /\ prog = "shutdown" /\ Running
    /\ reqs[r].g = "select"
    /\ \E case \in SelectReady(reqs[r].timer, reqs[r].done) :
          out' = Append(out,
                   IF case = "timer" THEN <<"Request processed successfully">>
                   ELSE <<"Request canceled:", " ", "context canceled">>)
    /\ reqs' = [reqs EXCEPT ![r].g = "defer", ![r].timer = NoTimer]
    /\ SrvFrame /\ UNCHANGED <<proc, pc, now, srv>>

\* defer cancel()
HandlerCancel(r) ==
    /\ prog = "shutdown" /\ Running
    /\ reqs[r].g = "defer"
    /\ reqs' = [reqs EXCEPT ![r].g = "end", ![r].done = TRUE]
    /\ SrvFrame /\ UNCHANGED <<proc, pc, out, now, srv>>

SrvSteps ==
    \/ SrvGoListen \/ SrvNotify \/ SrvRecvSignal \/ SrvWithTimeout
    \/ SrvShutdown \/ SrvShutdownReturns \/ SrvReturn
    \/ SrvListen \/ SrvServeEnds \/ SrvPrintError
    \/ \E r \in Reqs :
          \/ HandlerGo(r) \/ HandlerRespond(r)
          \/ handleRequest(r) \/ handleRequestSelect(r) \/ HandlerCancel(r)

\* a second passes: a timer is pending and no goroutine can run
SrvTick ==
    /\ prog = "shutdown" /\ Running
    /\ srv.deadline > now \/ \E r \in Reqs : reqs[r].timer > now
    /\ ~ENABLED SrvSteps
    /\ now' = now + 1
    /\ SrvFrame /\ UNCHANGED <<proc, pc, out, varsSrv>>

SrvNext == SrvSteps \/ SrvTick \/ SrvSignal \/ \E r \in Reqs : SrvAccept(r)

\* ------------------------------------------------------------------------

IdleClosure == cells = <<>> /\ rets = <<>>
IdleList    == heap = <<>> /\ lst = [head |-> Nil, tail |-> Nil] /\ pushed = <<>> /\ elems = <<>>
IdleErrors  == xs = <<>>
IdleConc    ==
    /\ chans = [c \in ChanNames |-> MakeChan(0)]
IdleSlice   == backing = <<>> /\ sv = [s |-> NoSlice, l |-> NoSlice]

InitCommon ==
    /\ proc = "running"
    /\ idx = [g \in Named |-> 0]
    /\ out = <<>>
    /\ res = [r |-> 0, e |-> NilError]
    /\ loc = [g \in Named |-> CASE prog = "chat" -> NoMessage
                                [] prog = "http" -> <<>>
                                [] OTHER -> 0]
    /\ wpc = [w \in Workers |-> "-"]
    /\ wjob = [w \in Workers |-> IF prog = "http" THEN NoRequest ELSE 0]
    /\ sent = [c \in ChanNames |-> <<>>]
    /\ rcvd = [c \in ChanNames |-> <<>>]
    /\ now = 0
    /\ timer = [g \in Named |-> NoTimer]
    /\ ctxErr = "nil"
    /\ reqs = [r \in Reqs |->
                 [h |-> "-", g |-> "-", timer |-> NoTimer, done |-> FALSE]]
    /\ srv = [sig |-> FALSE, listening |-> FALSE, inShutdown |-> FALSE,
              deadline |-> NoTimer, inflight |-> {}]

IdleSeq == IdleSlice /\ IdleClosure /\ IdleList /\ IdleErrors

Init ==
    /\ \/ SliceInit /\ IdleSeq /\ IdleConc
       \/ ClosureInit /\ IdleSeq /\ IdleConc
       \/ ListInit /\ IdleSeq /\ IdleConc
       \/ ErrorsInit /\ IdleSlice /\ IdleClosure /\ IdleList /\ IdleConc
       \/ BufInit /\ IdleSeq
       \/ PoolInit /\ IdleSeq
       \/ ChatInit /\ IdleSeq
       \/ HttpInit /\ IdleSeq
       \/ CtxInit /\ IdleSeq /\ IdleConc
       \/ SrvInit /\ IdleSeq /\ IdleConc
    /\ InitCommon

Next ==
    \/ SliceNext \/ ClosureNext \/ ListNext \/ ErrorsNext
    \/ BufNext \/ PoolNext \/ ChatNext \/ HttpNext
    \/ CtxNext \/ SrvNext

Spec == Init /\ [][Next]_vars

\* the Go scheduler runs a goroutine that can run, and timers fire
FairSpec == Spec /\ WF_vars(Next)

\* ========================================================================
\* Properties

Range(f) == {f[k] : k \in DOMAIN f}
IsPrefix(a, b) == Len(a) <= Len(b) /\ a = SubSeq(b, 1, Len(a))
NoDuplicates(f) == \A j, k \in DOMAIN f : f[j] = f[k] => j = k
Quiescent == ~ENABLED Next

\* ---- C1 ----------------------------------------------------------------
Letters == <<"a", "b", "c", "d", "e", "f">>
SliceExpected ==
    << <<"[", "c", " ", "d", " ", "e", "]">>,
       <<"[", "a", " ", "b", " ", "c", " ", "d", " ", "e", "]">>,
       <<"[", "c", " ", "d", " ", "e", " ", "f", "]">> >>

\* C1: main of go/main.go prints exactly [c d e], [a b c d e], [c d e f], in
\* this order and nothing else; after each l = s[i:j] the slice l holds
\* exactly the elements of s at the indices i..j-1 (s[2:5], s[:5] = s[0:5],
\* s[2:] = s[2:6]); s is the same six letters throughout; no slicing panics.
C1_SliceOutput ==
    prog = "slice" =>
        /\ proc # "panic"
        /\ IsPrefix(out, SliceExpected)
        /\ pc["main"] \in {"L19", "returned"} => out = SliceExpected
        /\ pc["main"] # "L7" => Elems(sv.s) = Letters
        /\ pc["main"] \in {"L10", "L13"} => Elems(sv.l) = SubSeq(Elems(sv.s), 2 + 1, 5)
        /\ pc["main"] \in {"L14", "L17"} => Elems(sv.l) = SubSeq(Elems(sv.s), 0 + 1, 5)
        /\ pc["main"] \in {"L18", "L19", "returned"} =>
              Elems(sv.l) = SubSeq(Elems(sv.s), 2 + 1, 6)

C1_Witness == prog = "slice" /\ proc = "exited" /\ Len(out) = 3

\* ---- C2 ----------------------------------------------------------------
\* the goroutine of request r has reached the end of handleRequest
HandleRequestEnded(r) == reqs[r].g \in {"defer", "end"}

\* C2: once server.Shutdown has returned to main (and when main has returned),
\* every request whose goroutine had been started when the signal arrived has
\* reached the end of handleRequest.
C2_InFlightFinish ==
    (prog = "shutdown" /\ pc["main"] \in {"L292", "returned"}) =>
        \A r \in srv.inflight : HandleRequestEnded(r)

\* ---- C3 ----------------------------------------------------------------
PoolLines == {<<"Result:", " ">> \o Itoa(2 * j) : j \in 1..NumJobs}

PoolMainSafe ==
    /\ proc # "panic"
    /\ Range(out) \subseteq PoolLines /\ NoDuplicates(out)
    /\ proc = "exited" => Len(out) = NumJobs /\ Range(out) = PoolLines
    \* no job is lost or taken twice, every job is doubled exactly once
    /\ rcvd["jobs"] \o chans["jobs"].buf = sent["jobs"]
    /\ IsPrefix(sent["jobs"], [j \in 1..NumJobs |-> j])
    /\ NoDuplicates(sent["results"])
    /\ Range(sent["results"]) \cup {2 * wjob[w] : w \in {v \in Workers : wpc[v] = "send"}}
          = {2 * j : j \in Range(rcvd["jobs"])}
    \* a worker leaves its loop only after jobs is closed and drained
    /\ \A w \in Workers : wpc[w] = "end" => RangeOver("jobs")

\* C3, as stated: all of the above, and when main returns every worker's
\* range loop has ended.
C3_WorkersEndBeforeExit ==
    prog = "pool" =>
        /\ PoolMainSafe
        /\ proc = "exited" => \A w \in Workers : wpc[w] = "end"

\* C3, amended: under every interleaving main returns after printing exactly
\* the results 2, 4, 6, 8, 10, each once; no job is lost or processed twice;
\* a worker's loop ends only after jobs is closed and drained; and when main
\* returns every worker has sent all its results and is at the range test of
\* the closed, drained channel or past it (it need not have left the loop).
C3_WorkerPool ==
    /\ [](prog = "pool" =>
            /\ PoolMainSafe
            /\ proc = "exited" =>
                  /\ RangeOver("jobs")
                  /\ \A w \in Workers : wpc[w] \in {"range", "end"} /\ wjob[w] = 0)
    /\ (prog = "pool") ~> (prog = "pool" /\ proc = "exited")

C3_Witness ==
    /\ prog = "pool" /\ proc = "exited" /\ Len(out) = NumJobs
    /\ \E w \in Workers : wpc[w] = "range"

\* ---- C4 ----------------------------------------------------------------
\* C4: cancel() is called at time 1 s, while the 2 s timer of process is
\* still to fire; process never prints "Task completed successfully"; it
\* prints one line, "Task canceled: context canceled", and returns.
C4_ContextCancel ==
    /\ [](prog = "ctx" =>
            /\ <<"Task completed successfully">> \notin Range(out)
            /\ Len(out) <= 1
            /\ ctxErr # "nil" => now = CancelSeconds
            /\ (ctxErr # "nil" /\ timer["main"] # NoTimer) => now < timer["main"]
            /\ pc["main"] \in {"L141", "returned"} =>
                  out = << <<"Task canceled:", " ", "context canceled">> >>)
    /\ (prog = "ctx") ~> (prog = "ctx" /\ proc = "exited")

C4_Witness ==
    /\ prog = "ctx" /\ proc = "exited" /\ now = 1
    /\ out = << <<"Task canceled:", " ", "context canceled">> >>

\* ---- C5 ----------------------------------------------------------------
\* the places of out that hold a response to request i, by any worker
HttpPrinted(i) ==
    {k \in DOMAIN out : \E w \in Workers : out[k] = HttpResponse(w, HttpRequest(i))}
\* the responses to request i sent to results
HttpAnswered(i) ==
    {k \in DOMAIN sent["results"] :
        \E w \in Workers : sent["results"][k] = HttpResponse(w, HttpRequest(i))}

\* C5: each request 1..NumRequests is taken from requests by exactly one
\* worker (none twice), at most one response to it is ever sent or printed,
\* and eventually, and from then on, exactly one response to each request has
\* been printed by the collector.
C5_HttpPool ==
    /\ [](prog = "http" =>
            /\ proc = "running"
            /\ rcvd["requests"] \o chans["requests"].buf = sent["requests"]
            /\ IsPrefix(sent["requests"], [i \in 1..NumRequests |-> HttpRequest(i)])
            /\ \A i \in 1..NumRequests :
                  /\ Cardinality(HttpAnswered(i)) <= 1
                  /\ Cardinality(HttpPrinted(i)) <= 1
            /\ Len(out) <= NumRequests)
    /\ (prog = "http") ~>
          [](/\ prog = "http"
             /\ \A i \in 1..NumRequests :
                   Cardinality(HttpAnswered(i)) = 1 /\ Cardinality(HttpPrinted(i)) = 1)

C5_Witness ==
    /\ prog = "http" /\ Len(out) = NumRequests
    /\ \A i \in 1..NumRequests : Cardinality(HttpPrinted(i)) = 1
    /\ \E w \in Workers : out[1] = HttpResponse(w, HttpRequest(2))

\* ---- C6 ----------------------------------------------------------------
\* what each snippet sends on the channel it closes
AllSent(c) ==
    CASE c = "ch" -> <<1, 2>>
      [] c = "jobs" -> [j \in 1..NumJobs |-> j]
      [] c = "messages" -> [i \in 1..NumMessages |-> ChatMessage(i)]
      [] c = "requests" -> [i \in 1..NumRequests |-> HttpRequest(i)]
      [] OTHER -> <<>>

\* the channel each snippet closes, and whether a consumer's range loop over
\* it has ended
ClosedChan ==
    CASE prog = "buffered" -> "ch" [] prog = "pool" -> "jobs"
      [] prog = "chat" -> "messages" [] OTHER -> "requests"
SomeRangeEnded ==
    CASE prog = "buffered" -> pc["main"] = "returned"
      [] prog = "chat" -> pc["cons"] = "end"
      [] OTHER -> \E w \in Workers : wpc[w] = "end"

\* C6: in the buffered-channel, worker-pool, chat and HTTP snippets no send
\* hits a closed channel and no channel is closed twice (either would panic);
\* a channel is closed only once everything the snippet sends on it has been
\* sent; values are received in send order, none lost or repeated; and a
\* consumer's range loop ends only when the channel is closed and drained,
\* every value sent having been received; and eventually the channel is
\* closed and every value sent on it has been received.
C6_CloseAfterFinalSend ==
    /\ [](prog \in {"buffered", "pool", "chat", "http"} =>
            LET c == ClosedChan IN
            /\ proc # "panic"
            /\ IsPrefix(sent[c], AllSent(c))
            /\ chans[c].closed => sent[c] = AllSent(c)
            /\ rcvd[c] \o chans[c].buf = sent[c]
            /\ SomeRangeEnded => chans[c].closed /\ rcvd[c] = AllSent(c))
    /\ (prog \in {"buffered", "pool", "chat", "http"}) ~>
          (/\ prog \in {"buffered", "pool", "chat", "http"}
           /\ chans[ClosedChan].closed
           /\ rcvd[ClosedChan] = AllSent(ClosedChan))

C6_Witness ==
    /\ prog = "chat" /\ pc["cons"] = "end"
    /\ Len(rcvd["messages"]) = NumMessages

\* ---- C7 ----------------------------------------------------------------
\* C7: whatever the interleaving of calls, the n-th call of a closure
\* returned 1, 2, ..., n, and the variable it captured holds n, so its next
\* call returns n + 1 whatever the other closures have done; a closure not
\* yet called will return 1.
C7_ClosureOwnCounter ==
    prog = "closure" =>
        \A c \in DOMAIN rets :
            /\ rets[c] = [k \in 1..Len(rets[c]) |-> k]
            /\ cells[c] = Len(rets[c])

C7_Witness ==
    /\ prog = "closure" /\ Len(rets) = 2
    /\ rets[1] = <<1, 2, 3>> /\ rets[2] = <<1>>

\* ---- C8 ----------------------------------------------------------------
RECURSIVE ReachableFrom(_, _, _)
ReachableFrom(h, e, target) ==
    IF e = Nil THEN FALSE
    ELSE IF e = target THEN TRUE
    ELSE ReachableFrom(h, h[e].next, target)

\* C8: after any pushes v1..vn on an empty list GetAll returns <<v1..vn>>
\* (empty for none), before and after a GetAll; head is nil exactly when tail
\* is; tail is reachable from head and tail.next is nil.
C8_ListPushGetAll ==
    prog = "list" =>
        /\ GetAll(lst, heap) = pushed
        /\ pc["main"] = "got" => elems = pushed
        /\ (lst.head = Nil) <=> (lst.tail = Nil)
        /\ lst.tail # Nil =>
              /\ heap[lst.tail].next = Nil
              /\ ReachableFrom(heap, lst.head, lst.tail)

C8_Witness ==
    /\ prog = "list" /\ pc["main"] = "got"
    /\ pushed = <<10, 13, 10>> /\ elems = <<10, 13, 10>>

\* ---- C9 ----------------------------------------------------------------
\* C9: after r, e := f1(arg) or f2(arg): e is non-nil exactly when arg is 42;
\* then r is -1 and e is the error "can't work with 42" (f1) or the argError
\* {42, "can't work with it"} (f2); otherwise r is arg + 3 (in int
\* arithmetic: exactly arg + 3 unless that exceeds the largest int, where it
\* wraps around).  main prints "f1 worked: 10" for 7 and
\* "f1 failed: can't work with 42" for 42.
C9_ErrorLastValue ==
    /\ (prog \in {"f1", "f2"} /\ pc["main"] = "if") =>
          LET arg == xs[idx["main"]] IN
          /\ res.e.kind # "nil" <=> arg = 42
          /\ arg = 42 =>
                /\ res.r = -1
                /\ prog = "f1" =>
                      /\ res.e.kind = "errorString"
                      /\ ErrorText(res.e) = <<"can't work with 42">>
                /\ prog = "f2" =>
                      /\ res.e.kind = "argError"
                      /\ res.e.arg = 42 /\ res.e.prob = "can't work with it"
          /\ arg # 42 =>
                /\ res.r \in GoInt
                /\ res.r = IF arg + 3 <= MaxInt THEN arg + 3
                           ELSE arg + 3 - 2 ^ IntBits
    /\ (prog = "f1" /\ xs = <<7, 42>> /\ proc = "exited") =>
          out = << <<"f1 worked:", " ", "1", "0">>,
                   <<"f1 failed:", " ", "can't work with 42">> >>
    /\ (prog = "f2" /\ xs = <<42>> /\ proc = "exited") =>
          out = << <<"4", "2">>, <<"can't work with it">> >>

C9_Witness ==
    /\ prog = "f1" /\ xs = <<7, 42>> /\ proc = "exited" /\ Len(out) = 2

\* ---- C10 ---------------------------------------------------------------
\* chat: everything sent, received and printed; only main is left, in select {}
ChatFinal ==
    /\ pc = [g \in Named |-> CASE g = "main" -> "select"
                               [] g \in {"prod", "cons"} -> "end"
                               [] OTHER -> "-"]
    /\ chans["messages"].closed /\ chans["messages"].buf = <<>>
    /\ out = [i \in 1..NumMessages |-> ChatLine(ChatMessage(i))]

\* http: everything handled; the producer and the workers have returned; the
\* collector waits on the open, empty results beside main in select {}
HttpFinal ==
    /\ pc = [g \in Named |-> CASE g = "main" -> "select"
                               [] g = "prod" -> "end"
                               [] g = "cons" -> "range"
                               [] OTHER -> "-"]
    /\ \A w \in Workers : wpc[w] = "end"
    /\ chans["requests"].closed /\ chans["requests"].buf = <<>>
    /\ ~chans["results"].closed /\ chans["results"].buf = <<>>
    /\ Len(out) = NumRequests

====
